---------------------------- MODULE Spec2Model ----------------------------
(***************************************************************************)
(* Model of crates/typst-library/src/model/numbering.rs: the numbering     *)
(* kinds, their conversions of a u64 to text, and numbering patterns       *)
(* (parsing, serialisation, apply, apply_kth).                             *)
(*                                                                         *)
(* A char is its Unicode scalar value (an integer); a string (EcoString,   *)
(* &str) is the sequence of its chars.  A u64 is the tuple of its four     *)
(* 16-bit limbs, most significant first, so that every value up to         *)
(* 2^64 - 1 is represented exactly.                                        *)
(***************************************************************************)
EXTENDS Integers, Sequences, FiniteSets, TLC

(* ------------------------------ bounds -------------------------------- *)

\* Longest pattern text that is enumerated exhaustively.
MaxPatLen == 3

\* Longest list of numbers that is enumerated exhaustively.
MaxNumbers == 3

\* Largest argument k of apply_kth.
MaxK == 3

\* The conversions are applied to every number 0..MaxN (and to Samples).
MaxN == 60

(* --------------------------- u64 arithmetic --------------------------- *)

\* The u64 with value i, for 0 <= i < 2^31.
u64(i) == <<0, 0, i \div 65536, i % 65536>>

u64_MAX == <<65535, 65535, 65535, 65535>>

\* a < b
u64_lt(a, b) ==
    \E i \in 1..4 : a[i] < b[i] /\ \A j \in 1..(i - 1) : a[j] = b[j]

\* a >= b
u64_ge(a, b) == ~u64_lt(a, b)

\* a - b (wrapping)
u64_sub(a, b) ==
    LET d4 == a[4] - b[4]
        b4 == IF d4 < 0 THEN 1 ELSE 0
        d3 == a[3] - b[3] - b4
        b3 == IF d3 < 0 THEN 1 ELSE 0
        d2 == a[2] - b[2] - b3
        b2 == IF d2 < 0 THEN 1 ELSE 0
        d1 == a[1] - b[1] - b2
    IN  <<d1 % 65536, d2 % 65536, d3 % 65536, d4 % 65536>>

\* a + b (wrapping)
u64_add(a, b) ==
    LET s4 == a[4] + b[4]
        s3 == a[3] + b[3] + (s4 \div 65536)
        s2 == a[2] + b[2] + (s3 \div 65536)
        s1 == a[1] + b[1] + (s2 \div 65536)
    IN  <<s1 % 65536, s2 % 65536, s3 % 65536, s4 % 65536>>

\* a / k and a % k for a divisor 0 < k < 2^15: long division over the limbs.
u64_divrem(a, k) ==
    LET q1 == a[1] \div k
        t2 == (a[1] % k) * 65536 + a[2]
        q2 == t2 \div k
        t3 == (t2 % k) * 65536 + a[3]
        q3 == t3 \div k
        t4 == (t3 % k) * 65536 + a[4]
    IN  [quot |-> <<q1, q2, q3, t4 \div k>>, rem |-> t4 % k]

u64_div(a, k) == u64_divrem(a, k).quot

u64_rem(a, k) == u64_divrem(a, k).rem

\* The value of a u64 below 2^31 as an integer.
u64_int(a) == a[3] * 65536 + a[4]

\* u64 -> usize (TryFrom): fails when the value needs more than `bits` bits.
\* usize is as wide as a pointer of the build's target: 32 or 64 bits.
try_into_usize_ok(a, bits) == bits = 64 \/ (a[1] = 0 /\ a[2] = 0)

(* ------------------------------ strings ------------------------------- *)

\* cs.chars().rev().collect()
rev(s) == [i \in 1..Len(s) |-> s[Len(s) + 1 - i]]

\* std::iter::repeat_n(c, amount).collect()
repeat_n(c, amount) == [i \in 1..amount |-> c]

\* char::from_u32: only Unicode scalar values are chars.
char_from_u32_ok(u) == u >= 0 /\ u <= 1114111 /\ ~(u >= 55296 /\ u <= 57343)

\* char::to_lowercase for the chars of the Roman table: the Latin capitals
\* map to their small letters, the combining overline U+0305 is caseless.
to_lowercase(c) == IF c >= 65 /\ c <= 90 THEN c + 32 ELSE c

(* --------------------------- NumberingKind ---------------------------- *)

ChineseKinds ==
    {"LowerSimplifiedChinese", "UpperSimplifiedChinese",
     "LowerTraditionalChinese", "UpperTraditionalChinese"}

ZerolessKinds ==
    {"LowerLatin", "UpperLatin", "HiraganaAiueo", "HiraganaIroha",
     "KatakanaAiueo", "KatakanaIroha", "KoreanJamo", "KoreanSyllable",
     "BengaliLetter", "CircledNumber", "DoubleCircledNumber"}

DecimalKinds ==
    {"EasternArabic", "EasternArabicPersian", "DevanagariNumber",
     "BengaliNumber"}

NumberingKind ==
    {"Arabic", "LowerRoman", "UpperRoman", "LowerGreek", "UpperGreek",
     "Symbol", "Hebrew"}
    \cup ZerolessKinds \cup ChineseKinds \cup DecimalKinds

\* Option::None
None == "None"

\* NumberingKind::from_char
from_char(c) ==
    CASE c = 49 -> "Arabic"
      [] c = 97 -> "LowerLatin"
      [] c = 65 -> "UpperLatin"
      [] c = 105 -> "LowerRoman"
      [] c = 73 -> "UpperRoman"
      [] c = 945 -> "LowerGreek"
      [] c = 913 -> "UpperGreek"
      [] c = 42 -> "Symbol"
      [] c = 1488 -> "Hebrew"
      [] c = 19968 -> "LowerSimplifiedChinese"
      [] c = 22777 -> "UpperSimplifiedChinese"
      [] c = 12354 -> "HiraganaAiueo"
      [] c = 12356 -> "HiraganaIroha"
      [] c = 12450 -> "KatakanaAiueo"
      [] c = 12452 -> "KatakanaIroha"
      [] c = 12593 -> "KoreanJamo"
      [] c = 44032 -> "KoreanSyllable"
      [] c = 1633 -> "EasternArabic"
      [] c = 1777 -> "EasternArabicPersian"
      [] c = 2407 -> "DevanagariNumber"
      [] c = 2535 -> "BengaliNumber"
      [] c = 2453 -> "BengaliLetter"
      [] c = 9312 -> "CircledNumber"
      [] c = 9461 -> "DoubleCircledNumber"
      [] OTHER -> None

\* A variant of to_char that gives both Katakana kinds the char of
\* KatakanaAiueo.
to_char_one_katakana(kind) ==
    CASE kind = "Arabic" -> 49
      [] kind = "LowerLatin" -> 97
      [] kind = "UpperLatin" -> 65
      [] kind = "LowerRoman" -> 105
      [] kind = "UpperRoman" -> 73
      [] kind = "LowerGreek" -> 945
      [] kind = "UpperGreek" -> 913
      [] kind = "Symbol" -> 42
      [] kind = "Hebrew" -> 1488
      [] kind \in {"LowerSimplifiedChinese", "LowerTraditionalChinese"} -> 19968
      [] kind \in {"UpperSimplifiedChinese", "UpperTraditionalChinese"} -> 22777
      [] kind = "HiraganaAiueo" -> 12354
      [] kind = "HiraganaIroha" -> 12356
      [] kind = "KatakanaAiueo" -> 12450
      [] kind = "KatakanaIroha" -> 12450
      [] kind = "KoreanJamo" -> 12593
      [] kind = "KoreanSyllable" -> 44032
      [] kind = "EasternArabic" -> 1633
      [] kind = "EasternArabicPersian" -> 1777
      [] kind = "DevanagariNumber" -> 2407
      [] kind = "BengaliNumber" -> 2535
      [] kind = "BengaliLetter" -> 2453
      [] kind = "CircledNumber" -> 9312
      [] kind = "DoubleCircledNumber" -> 9461

\* NumberingKind::to_char
to_char(kind) ==
    CASE kind = "Arabic" -> 49
      [] kind = "LowerLatin" -> 97
      [] kind = "UpperLatin" -> 65
      [] kind = "LowerRoman" -> 105
      [] kind = "UpperRoman" -> 73
      [] kind = "LowerGreek" -> 945
      [] kind = "UpperGreek" -> 913
      [] kind = "Symbol" -> 42
      [] kind = "Hebrew" -> 1488
      [] kind \in {"LowerSimplifiedChinese", "LowerTraditionalChinese"} -> 19968
      [] kind \in {"UpperSimplifiedChinese", "UpperTraditionalChinese"} -> 22777
      [] kind = "HiraganaAiueo" -> 12354
      [] kind = "HiraganaIroha" -> 12356
      [] kind = "KatakanaAiueo" -> 12450
      [] kind = "KatakanaIroha" -> 12452
      [] kind = "KoreanJamo" -> 12593
      [] kind = "KoreanSyllable" -> 44032
      [] kind = "EasternArabic" -> 1633
      [] kind = "EasternArabicPersian" -> 1777
      [] kind = "DevanagariNumber" -> 2407
      [] kind = "BengaliNumber" -> 2535
      [] kind = "BengaliLetter" -> 2453
      [] kind = "CircledNumber" -> 9312
      [] kind = "DoubleCircledNumber" -> 9461

(* ---------------------------- conversions ----------------------------- *)

\* eco_format!("{n}"): the decimal digits of n as ASCII, least significant
\* first.
RECURSIVE display_cs(_)
display_cs(n) ==
    IF n = u64(0) THEN <<>>
    ELSE <<48 + u64_rem(n, 10)>> \o display_cs(u64_div(n, 10))

\* eco_format!("{n}") (Display for u64)
display(n) == IF n = u64(0) THEN <<48>> ELSE rev(display_cs(n))

\* The alphabets handed to zeroless by NumberingKind::apply.
alphabet(kind) ==
    CASE kind = "LowerLatin" ->
           <<97, 98, 99, 100, 101, 102, 103, 104, 105, 106, 107, 108, 109,
           110, 111, 112, 113, 114, 115, 116, 117, 118, 119, 120, 121, 122>>
      [] kind = "UpperLatin" ->
           <<65, 66, 67, 68, 69, 70, 71, 72, 73, 74, 75, 76, 77, 78, 79, 80,
           81, 82, 83, 84, 85, 86, 87, 88, 89, 90>>
      [] kind = "HiraganaAiueo" ->
           <<12354, 12356, 12358, 12360, 12362, 12363, 12365, 12367, 12369,
           12371, 12373, 12375, 12377, 12379, 12381, 12383, 12385, 12388,
           12390, 12392, 12394, 12395, 12396, 12397, 12398, 12399, 12402,
           12405, 12408, 12411, 12414, 12415, 12416, 12417, 12418, 12420,
           12422, 12424, 12425, 12426, 12427, 12428, 12429, 12431, 12434,
           12435>>
      [] kind = "HiraganaIroha" ->
           <<12356, 12429, 12399, 12395, 12411, 12408, 12392, 12385, 12426,
           12396, 12427, 12434, 12431, 12363, 12424, 12383, 12428, 12381,
           12388, 12397, 12394, 12425, 12416, 12358, 12432, 12398, 12362,
           12367, 12420, 12414, 12369, 12405, 12371, 12360, 12390, 12354,
           12373, 12365, 12422, 12417, 12415, 12375, 12433, 12402, 12418,
           12379, 12377>>
      [] kind = "KatakanaAiueo" ->
           <<12450, 12452, 12454, 12456, 12458, 12459, 12461, 12463, 12465,
           12467, 12469, 12471, 12473, 12475, 12477, 12479, 12481, 12484,
           12486, 12488, 12490, 12491, 12492, 12493, 12494, 12495, 12498,
           12501, 12504, 12507, 12510, 12511, 12512, 12513, 12514, 12516,
           12518, 12520, 12521, 12522, 12523, 12524, 12525, 12527, 12530,
           12531>>
      [] kind = "KatakanaIroha" ->
           <<12452, 12525, 12495, 12491, 12507, 12504, 12488, 12481, 12522,
           12492, 12523, 12530, 12527, 12459, 12520, 12479, 12524, 12477,
           12484, 12493, 12490, 12521, 12512, 12454, 12528, 12494, 12458,
           12463, 12516, 12510, 12465, 12501, 12467, 12456, 12486, 12450,
           12469, 12461, 12518, 12513, 12511, 12471, 12529, 12498, 12514,
           12475, 12473>>
      [] kind = "KoreanJamo" ->
           <<12593, 12596, 12599, 12601, 12609, 12610, 12613, 12615, 12616,
           12618, 12619, 12620, 12621, 12622>>
      [] kind = "KoreanSyllable" ->
           <<44032, 45208, 45796, 46972, 47560, 48148, 49324, 50500, 51088,
           52264, 52852, 53440, 54028, 54616>>
      [] kind = "BengaliLetter" ->
           <<2453, 2454, 2455, 2456, 2457, 2458, 2459, 2460, 2461, 2462,
           2463, 2464, 2465, 2466, 2467, 2468, 2469, 2470, 2471, 2472, 2474,
           2475, 2476, 2477, 2478, 2479, 2480, 2482, 2486, 2487, 2488,
           2489>>
      [] kind = "CircledNumber" ->
           <<9312, 9313, 9314, 9315, 9316, 9317, 9318, 9319, 9320, 9321,
           9322, 9323, 9324, 9325, 9326, 9327, 9328, 9329, 9330, 9331,
           12881, 12882, 12883, 12884, 12885, 12886, 12887, 12888, 12889,
           12890, 12891, 12892, 12893, 12894, 12895, 12977, 12978, 12979,
           12980, 12981, 12982, 12983, 12984, 12985, 12986, 12987, 12988,
           12989, 12990, 12991>>
      [] kind = "DoubleCircledNumber" ->
           <<9461, 9462, 9463, 9464, 9465, 9466, 9467, 9468, 9469, 9470>>

\* A variant of the loop of zeroless without `n -= 1`: the digits of the
\* ordinary base-K numeral of n.
RECURSIVE zeroless_cs_base_k(_, _)
zeroless_cs_base_k(alpha, n) ==
    IF n = u64(0) THEN <<>>
    ELSE <<alpha[u64_rem(n, Len(alpha)) + 1]>>
             \o zeroless_cs_base_k(alpha, u64_div(n, Len(alpha)))

\* The while loop of zeroless: the digits of n, least significant first.
RECURSIVE zeroless_cs(_, _)
zeroless_cs(alpha, n) ==
    IF n = u64(0) THEN <<>>
    ELSE LET m == u64_sub(n, u64(1))
         IN  <<alpha[u64_rem(m, Len(alpha)) + 1]>>
                 \o zeroless_cs(alpha, u64_div(m, Len(alpha)))

\* zeroless
zeroless(alpha, n) == IF n = u64(0) THEN <<45>> ELSE rev(zeroless_cs(alpha, n))

\* The while loop of decimal: the digits of n, least significant first.
RECURSIVE decimal_cs(_, _)
decimal_cs(start, n) ==
    IF n = u64(0) THEN <<>>
    ELSE <<start + u64_rem(n, 10)>> \o decimal_cs(start, u64_div(n, 10))

\* decimal
decimal(start, n) == IF n = u64(0) THEN <<start>> ELSE rev(decimal_cs(start, n))

\* decimal reaches a failing unwrap: some char::from_u32 returns None.
decimal_panics(start, n) ==
    \E i \in 1..Len(decimal_cs(start, n)) :
        ~char_from_u32_ok(decimal_cs(start, n)[i])

\* The start digit of each positional decimal kind.
decimal_start(kind) ==
    CASE kind = "EasternArabic" -> 1632
      [] kind = "EasternArabicPersian" -> 1776
      [] kind = "DevanagariNumber" -> 2406
      [] kind = "BengaliNumber" -> 2534

\* SYMBOLS of the Symbol kind.
SYMBOLS == <<42, 8224, 8225, 167, 182, 8214>>

\* amount of the Symbol kind, for n >= 1: ((n - 1) / n_symbols) + 1
Symbol_amount(n) ==
    u64_add(u64_div(u64_sub(n, u64(1)), Len(SYMBOLS)), u64(1))

\* NumberingKind::apply, the Symbol arm
Symbol_apply(n) ==
    IF n = u64(0) THEN <<45>>
    ELSE LET symbol == SYMBOLS[u64_rem(u64_sub(n, u64(1)), Len(SYMBOLS)) + 1]
         IN  repeat_n(symbol, u64_int(Symbol_amount(n)))

\* The Symbol arm reaches a failing unwrap: amount does not fit a usize.
Symbol_panics(n, bits) ==
    n # u64(0) /\ ~try_into_usize_ok(Symbol_amount(n), bits)

\* The (name, value) table of hebrew_numeral.
HebrewTable ==
    <<
      <<1514, 400>>, <<1513, 300>>, <<1512, 200>>, <<1511, 100>>, <<1510,
      90>>, <<1508, 80>>, <<1506, 70>>, <<1505, 60>>, <<1504, 50>>, <<1502,
      40>>, <<1500, 30>>, <<1499, 20>>, <<1497, 10>>, <<1496, 9>>, <<1495,
      8>>, <<1494, 7>>, <<1493, 6>>, <<1492, 5>>, <<1491, 4>>, <<1490, 3>>,
      <<1489, 2>>, <<1488, 1>>>>

\* A variant of the loops of hebrew_numeral without the arms for 15 and 16.
RECURSIVE hebrew_loop_no_substitute(_, _, _)
hebrew_loop_no_substitute(i, n, fmt) ==
    IF i > Len(HebrewTable) THEN fmt
    ELSE LET name == HebrewTable[i][1]
             value == u64(HebrewTable[i][2])
         IN  IF u64_ge(n, value)
             THEN LET append_geresh == n = value /\ fmt = <<>>
                      f1 == IF n = value /\ fmt # <<>>
                            THEN Append(fmt, 1524) ELSE fmt
                      f2 == Append(f1, name)
                      f3 == IF append_geresh THEN Append(f2, 1523) ELSE f2
                  IN  hebrew_loop_no_substitute(i, u64_sub(n, value), f3)
             ELSE hebrew_loop_no_substitute(i + 1, n, fmt)

\* The loops of hebrew_numeral from table entry i on; `break 'outer` ends
\* the conversion.
RECURSIVE hebrew_loop(_, _, _)
hebrew_loop(i, n, fmt) ==
    IF i > Len(HebrewTable) THEN fmt
    ELSE LET name == HebrewTable[i][1]
             value == u64(HebrewTable[i][2])
         IN  IF u64_ge(n, value)
             THEN CASE n = u64(15) -> fmt \o <<1496, 1524, 1493>>
                    [] n = u64(16) -> fmt \o <<1496, 1524, 1494>>
                    [] OTHER ->
                        LET append_geresh == n = value /\ fmt = <<>>
                            f1 == IF n = value /\ fmt # <<>>
                                  THEN Append(fmt, 1524) ELSE fmt
                            f2 == Append(f1, name)
                            f3 == IF append_geresh THEN Append(f2, 1523) ELSE f2
                        IN  hebrew_loop(i, u64_sub(n, value), f3)
             ELSE hebrew_loop(i + 1, n, fmt)

\* hebrew_numeral
hebrew_numeral(n) == IF n = u64(0) THEN <<45>> ELSE hebrew_loop(1, n, <<>>)

\* The (name, value) table of roman_numeral.
RomanTable ==
    <<
      <<<<77, 773>>, 1000000>>, <<<<68, 773>>, 500000>>, <<<<67, 773>>,
      100000>>, <<<<76, 773>>, 50000>>, <<<<88, 773>>, 10000>>, <<<<86,
      773>>, 5000>>, <<<<73, 773, 86, 773>>, 4000>>, <<<<77>>, 1000>>,
      <<<<67, 77>>, 900>>, <<<<68>>, 500>>, <<<<67, 68>>, 400>>, <<<<67>>,
      100>>, <<<<88, 67>>, 90>>, <<<<76>>, 50>>, <<<<88, 76>>, 40>>,
      <<<<88>>, 10>>, <<<<73, 88>>, 9>>, <<<<86>>, 5>>, <<<<73, 86>>, 4>>,
      <<<<73>>, 1>>>>

\* A name of the Roman table in the given case.
roman_name(name, case) ==
    IF case = "Lower" THEN [j \in 1..Len(name) |-> to_lowercase(name[j])]
    ELSE name

\* A variant of the loops of roman_numeral with `while n > value`.
RECURSIVE roman_loop_strict(_, _, _, _)
roman_loop_strict(i, n, fmt, case) ==
    IF i > Len(RomanTable) THEN fmt
    ELSE LET name == RomanTable[i][1]
             value == u64(RomanTable[i][2])
         IN  IF u64_ge(n, value) /\ n # value
             THEN roman_loop_strict(i, u64_sub(n, value),
                                    fmt \o roman_name(name, case), case)
             ELSE roman_loop_strict(i + 1, n, fmt, case)

\* The loops of roman_numeral from table entry i on.
RECURSIVE roman_loop(_, _, _, _)
roman_loop(i, n, fmt, case) ==
    IF i > Len(RomanTable) THEN fmt
    ELSE LET name == RomanTable[i][1]
             value == u64(RomanTable[i][2])
         IN  IF u64_ge(n, value)
             THEN roman_loop(i, u64_sub(n, value),
                             fmt \o roman_name(name, case), case)
             ELSE roman_loop(i + 1, n, fmt, case)

\* A variant of roman_numeral without the arm for 0.
roman_numeral_no_zero(n, case) == roman_loop(1, n, <<>>, case)

\* roman_numeral
roman_numeral(n, case) ==
    IF n = u64(0) THEN (IF case = "Lower" THEN <<110>> ELSE <<78>>)
    ELSE roman_loop(1, n, <<>>, case)

\* thousands of greek_numeral: [lower, upper] per digit 1..9
thousands ==
    <<<<<<885, 945>>, <<885, 913>>>>, <<<<885, 946>>, <<885, 914>>>>,
      <<<<885, 947>>, <<885, 915>>>>, <<<<885, 948>>, <<885, 916>>>>,
      <<<<885, 949>>, <<885, 917>>>>, <<<<885, 987>>, <<885, 986>>>>,
      <<<<885, 950>>, <<885, 918>>>>, <<<<885, 951>>, <<885, 919>>>>,
      <<<<885, 952>>, <<885, 920>>>>>>

\* hundreds of greek_numeral: [lower, upper] per digit 1..9
hundreds ==
    <<<<<<961>>, <<929>>>>, <<<<963>>, <<931>>>>, <<<<964>>, <<932>>>>,
      <<<<965>>, <<933>>>>, <<<<966>>, <<934>>>>, <<<<967>>, <<935>>>>,
      <<<<968>>, <<936>>>>, <<<<969>>, <<937>>>>, <<<<993>>, <<992>>>>>>

\* tens of greek_numeral: [lower, upper] per digit 1..9
tens ==
    <<<<<<953>>, <<921>>>>, <<<<954>>, <<922>>>>, <<<<955>>, <<923>>>>,
      <<<<956>>, <<924>>>>, <<<<957>>, <<925>>>>, <<<<958>>, <<926>>>>,
      <<<<959>>, <<927>>>>, <<<<960>>, <<928>>>>, <<<<985>>, <<990>>>>>>

\* ones of greek_numeral: [lower, upper] per digit 1..9
ones ==
    <<<<<<945>>, <<913>>>>, <<<<946>>, <<914>>>>, <<<<947>>, <<915>>>>,
      <<<<948>>, <<916>>>>, <<<<949>>, <<917>>>>, <<<<987>>, <<986>>>>,
      <<<<950>>, <<918>>>>, <<<<951>>, <<919>>>>, <<<<952>>, <<920>>>>>>

\* The while loop of greek_numeral that extracts the decimal digits of n,
\* least significant first.
RECURSIVE greek_digits_cs(_)
greek_digits_cs(n) ==
    IF n = u64(0) THEN <<>>
    ELSE <<u64_rem(n, 10)>> \o greek_digits_cs(u64_div(n, 10))

\* The while loop of greek_numeral that pads the digits to groups of 4.
RECURSIVE greek_pad(_)
greek_pad(digits) ==
    IF Len(digits) % 4 # 0 THEN greek_pad(Append(digits, 0)) ELSE digits

\* decimal_digits of greek_numeral after padding and reverse().
decimal_digits(n) == rev(greek_pad(greek_digits_cs(n)))

\* m_power.saturating_sub(1)
saturating_sub1(m) == IF m = 0 THEN 0 ELSE m - 1

\* get_m_prefix of greek_numeral, for m_power in 1..9: Some(ones[m_power - 1][0]);
\* for m_power = 0 it is None and nothing is pushed.
get_m_prefix(m_power) == ones[m_power][1]

\* A variant of the for loop of greek_numeral that appends the keraia after
\* the last chunk only.
RECURSIVE greek_chunks_keraia_last(_, _, _, _, _, _)
greek_chunks_keraia_last(digits, c, m_power0, previous_has_number, fmt, cs) ==
    IF c > Len(digits) \div 4 THEN fmt
    ELSE LET m_power == saturating_sub1(m_power0)
             th == digits[4 * c - 3]
             h == digits[4 * c - 2]
             t == digits[4 * c - 1]
             o == digits[4 * c]
             f1 == IF previous_has_number THEN fmt \o <<44, 32>> ELSE fmt
             f2 == IF m_power # 0
                   THEN f1 \o get_m_prefix(m_power) \o <<924>> ELSE f1
             f3 == IF th # 0 THEN f2 \o thousands[th][cs] ELSE f2
             f4 == IF h # 0 THEN f3 \o hundreds[h][cs] ELSE f3
             f5 == IF t # 0 THEN f4 \o tens[t][cs] ELSE f4
             f6 == IF o # 0 THEN f5 \o ones[o][cs] ELSE f5
             f7 == IF th = 0 /\ c = Len(digits) \div 4
                   THEN f6 \o <<697>> ELSE f6
         IN  IF th + h + t + o = 0
             THEN greek_chunks_keraia_last(digits, c + 1, m_power,
                                           previous_has_number, fmt, cs)
             ELSE greek_chunks_keraia_last(digits, c + 1, m_power, TRUE, f7,
                                           cs)

\* The for loop of greek_numeral over decimal_digits.chunks_exact(4), from
\* chunk c on; cs is 1 for Case::Lower and 2 for Case::Upper.
RECURSIVE greek_chunks(_, _, _, _, _, _)
greek_chunks(digits, c, m_power0, previous_has_number, fmt, cs) ==
    IF c > Len(digits) \div 4 THEN fmt
    ELSE LET m_power == saturating_sub1(m_power0)
             th == digits[4 * c - 3]
             h == digits[4 * c - 2]
             t == digits[4 * c - 1]
             o == digits[4 * c]
             f1 == IF previous_has_number THEN fmt \o <<44, 32>> ELSE fmt
             f2 == IF m_power # 0
                   THEN f1 \o get_m_prefix(m_power) \o <<924>> ELSE f1
             f3 == IF th # 0 THEN f2 \o thousands[th][cs] ELSE f2
             f4 == IF h # 0 THEN f3 \o hundreds[h][cs] ELSE f3
             f5 == IF t # 0 THEN f4 \o tens[t][cs] ELSE f4
             f6 == IF o # 0 THEN f5 \o ones[o][cs] ELSE f5
             f7 == IF th = 0 THEN f6 \o <<697>> ELSE f6
         IN  IF th + h + t + o = 0
             THEN greek_chunks(digits, c + 1, m_power, previous_has_number,
                               fmt, cs)
             ELSE greek_chunks(digits, c + 1, m_power, TRUE, f7, cs)

\* greek_numeral
greek_numeral(n, case) ==
    IF n = u64(0) THEN <<65930>>
    ELSE greek_chunks(decimal_digits(n), 1, Len(decimal_digits(n)) \div 4,
                      FALSE, <<>>, IF case = "Lower" THEN 1 ELSE 2)

\* The chunks of decimal_digits.chunks_exact(4), as (first, last) index.
chunks_exact4(digits) ==
    [c \in 1..(Len(digits) \div 4) |-> <<4 * c - 3, 4 * c>>]

\* greek_numeral reaches a failing assertion: a chunk that is not 4 long, or
\* get_m_prefix called (for a chunk that is not all zero) with m_power > 9.
greek_panics(n) ==
    LET digits == decimal_digits(n)
        chunks == chunks_exact4(digits)
        m_power(c) == IF Len(digits) \div 4 >= c
                      THEN Len(digits) \div 4 - c ELSE 0
    IN  /\ n # u64(0)
        /\ \E c \in 1..Len(chunks) :
              \/ chunks[c][2] - chunks[c][1] + 1 # 4
              \/ /\ \E j \in chunks[c][1]..chunks[c][2] : digits[j] # 0
                 /\ m_power(c) > 9

\* NumberingKind::apply.  The four Chinese kinds are converted by the crate
\* chinese_number, which is no part of this repository: they have no arm
\* here and the model never applies them.
NumberingKind_apply(kind, n) ==
    CASE kind = "Arabic" -> display(n)
      [] kind = "LowerRoman" -> roman_numeral(n, "Lower")
      [] kind = "UpperRoman" -> roman_numeral(n, "Upper")
      [] kind = "LowerGreek" -> greek_numeral(n, "Lower")
      [] kind = "UpperGreek" -> greek_numeral(n, "Upper")
      [] kind = "Symbol" -> Symbol_apply(n)
      [] kind = "Hebrew" -> hebrew_numeral(n)
      [] kind \in ZerolessKinds -> zeroless(alphabet(kind), n)
      [] kind \in DecimalKinds -> decimal(decimal_start(kind), n)

\* NumberingKind::apply panics (a failing assertion or unwrap) instead of
\* returning; bits is the width of usize.
NumberingKind_panics(kind, n, bits) ==
    CASE kind \in {"LowerGreek", "UpperGreek"} -> greek_panics(n)
      [] kind = "Symbol" -> Symbol_panics(n, bits)
      [] kind \in DecimalKinds -> decimal_panics(decimal_start(kind), n)
      [] OTHER -> FALSE

(* -------------------------- NumberingPattern -------------------------- *)

\* A variant of the for loop of from_str with `handled = i`: the matched
\* char is not skipped.
RECURSIVE from_str_loop_keep_match(_, _, _, _)
from_str_loop_keep_match(pattern, i, handled, pieces) ==
    IF i > Len(pattern) THEN [pieces |-> pieces, handled |-> handled]
    ELSE IF from_char(pattern[i]) = None
         THEN from_str_loop_keep_match(pattern, i + 1, handled, pieces)
         ELSE from_str_loop_keep_match(pattern, i + 1, i - 1,
                  Append(pieces,
                         [prefix |-> SubSeq(pattern, handled + 1, i - 1),
                          kind |-> from_char(pattern[i])]))

\* The for loop of from_str over pattern.char_indices(), from the i-th char
\* on; handled counts the chars already taken into a piece.
RECURSIVE from_str_loop(_, _, _, _)
from_str_loop(pattern, i, handled, pieces) ==
    IF i > Len(pattern) THEN [pieces |-> pieces, handled |-> handled]
    ELSE IF from_char(pattern[i]) = None
         THEN from_str_loop(pattern, i + 1, handled, pieces)
         ELSE from_str_loop(pattern, i + 1, i,
                  Append(pieces,
                         [prefix |-> SubSeq(pattern, handled + 1, i - 1),
                          kind |-> from_char(pattern[i])]))

\* A variant of from_str that does not reject a pattern without pieces.
from_str_unchecked(pattern) ==
    LET scan == from_str_loop(pattern, 1, 0, <<>>)
    IN  [ok |-> TRUE, pieces |-> scan.pieces,
         suffix |-> SubSeq(pattern, scan.handled + 1, Len(pattern)),
         trimmed |-> FALSE]

\* NumberingPattern::from_str
from_str(pattern) ==
    LET scan == from_str_loop(pattern, 1, 0, <<>>)
        suffix == SubSeq(pattern, scan.handled + 1, Len(pattern))
    IN  IF scan.pieces = <<>>
        THEN [ok |-> FALSE, err |-> "invalid numbering pattern"]
        ELSE [ok |-> TRUE, pieces |-> scan.pieces, suffix |-> suffix,
              trimmed |-> FALSE]

\* The for loop of the cast of a NumberingPattern to a value, from piece i on.
RECURSIVE into_value_loop(_, _, _)
into_value_loop(self, i, pat) ==
    IF i > Len(self.pieces) THEN pat
    ELSE into_value_loop(self, i + 1,
             Append(pat \o self.pieces[i].prefix, to_char(self.pieces[i].kind)))

\* A variant of the cast that leaves out the suffix.
into_value_no_suffix(self) == into_value_loop(self, 1, <<>>)

\* cast! NumberingPattern, self => ...: the pattern as a string value
into_value(self) == into_value_loop(self, 1, <<>>) \o self.suffix

\* Numbering::trimmed, on a pattern
trimmed(self) == [self EXCEPT !.trimmed = TRUE]

\* A variant of the first loop of apply that runs over all pieces and emits
\* the prefix of a piece that has no number.
RECURSIVE apply_zip_all_pieces(_, _, _, _)
apply_zip_all_pieces(self, numbers, i, fmt) ==
    IF i > Len(self.pieces) THEN fmt
    ELSE LET f1 == IF i > 1 \/ ~self.trimmed
                   THEN fmt \o self.pieces[i].prefix ELSE fmt
         IN  apply_zip_all_pieces(self, numbers, i + 1,
                 IF i > Len(numbers) THEN f1
                 ELSE f1 \o NumberingKind_apply(self.pieces[i].kind, numbers[i]))

\* The first for loop of NumberingPattern::apply: pieces zipped with numbers.
RECURSIVE apply_zip(_, _, _, _)
apply_zip(self, numbers, i, fmt) ==
    IF i > Len(self.pieces) \/ i > Len(numbers) THEN fmt
    ELSE LET f1 == IF i > 1 \/ ~self.trimmed
                   THEN fmt \o self.pieces[i].prefix ELSE fmt
         IN  apply_zip(self, numbers, i + 1,
                 f1 \o NumberingKind_apply(self.pieces[i].kind, numbers[i]))

\* A variant of the second loop of apply that always repeats the prefix of
\* the last piece, also an empty one.
RECURSIVE apply_cycle_prefix_only(_, _, _, _)
apply_cycle_prefix_only(self, numbers, i, fmt) ==
    IF self.pieces = <<>> \/ i > Len(numbers) THEN fmt
    ELSE LET last == self.pieces[Len(self.pieces)]
         IN  apply_cycle_prefix_only(self, numbers, i + 1,
                 fmt \o last.prefix \o NumberingKind_apply(last.kind, numbers[i]))

\* The second for loop of NumberingPattern::apply: the last piece, cycled,
\* zipped with the numbers the first loop left, from the i-th number on.
RECURSIVE apply_cycle(_, _, _, _)
apply_cycle(self, numbers, i, fmt) ==
    IF self.pieces = <<>> \/ i > Len(numbers) THEN fmt
    ELSE LET last == self.pieces[Len(self.pieces)]
             f1 == IF last.prefix = <<>>
                   THEN fmt \o self.suffix ELSE fmt \o last.prefix
         IN  apply_cycle(self, numbers, i + 1,
                 f1 \o NumberingKind_apply(last.kind, numbers[i]))

\* A variant of apply that appends the suffix whatever the trimmed flag.
apply_suffix_always(self, numbers) ==
    apply_cycle(self, numbers, Len(self.pieces) + 1,
                apply_zip(self, numbers, 1, <<>>)) \o self.suffix

\* NumberingPattern::apply
NumberingPattern_apply(self, numbers) ==
    LET f1 == apply_zip(self, numbers, 1, <<>>)
        f2 == apply_cycle(self, numbers, Len(self.pieces) + 1, f1)
    IN  IF ~self.trimmed THEN f2 \o self.suffix ELSE f2

\* self.pieces.iter().chain(self.pieces.last().into_iter().cycle()).nth(k),
\* for k counted from 0: the piece, or None for a pattern without pieces.
nth_piece(self, k) ==
    IF self.pieces = <<>> THEN None
    ELSE IF k < Len(self.pieces) THEN self.pieces[k + 1]
         ELSE self.pieces[Len(self.pieces)]

\* A variant of apply_kth that emits the prefix of piece k, not of the first.
apply_kth_own_prefix(self, k, number) ==
    nth_piece(self, k).prefix
        \o NumberingKind_apply(nth_piece(self, k).kind, number)
        \o self.suffix

\* NumberingPattern::apply_kth
apply_kth(self, k, number) ==
    LET f1 == IF self.pieces # <<>> THEN self.pieces[1].prefix ELSE <<>>
        f2 == IF self.pieces # <<>>
              THEN f1 \o NumberingKind_apply(nth_piece(self, k).kind, number)
              ELSE f1
    IN  f2 \o self.suffix

\* NumberingPattern::pieces
pieces(self) == Len(self.pieces)

\* The kind NumberingPattern::apply converts the i-th number with.
applied_kind(self, i) == nth_piece(self, i - 1).kind

\* NumberingPattern::apply panics: some kind.apply(n) it calls does.
apply_panics(self, numbers, bits) ==
    /\ self.pieces # <<>>
    /\ \E i \in 1..Len(numbers) :
          NumberingKind_panics(applied_kind(self, i), numbers[i], bits)

\* NumberingPattern::apply_kth panics: its kind.apply(number) does.
apply_kth_panics(self, k, number, bits) ==
    /\ self.pieces # <<>>
    /\ NumberingKind_panics(nth_piece(self, k).kind, number, bits)

(* --------------------------- the state machine ------------------------ *)

VARIABLES
    target,     \* width of usize in the build: 32 or 64 bits
    parsed,     \* the Result of the last from_str, trimmed or not
    call,       \* the last call and its arguments
    ret,        \* what the last call returned
    panicked    \* the last call panicked instead of returning

vars == <<target, parsed, call, ret, panicked>>

\* All sequences over S of length at most n.
SeqsUpTo(S, n) == UNION {[1..m -> S] : m \in 0..n}

\* The chars of the exhaustively enumerated pattern texts: 1 I .
PatternChars == {49, 73, 46}

\* Further pattern texts: "1.1)", "(I)", "a.", "1.a.i", "##", "*", "*.",
\* "(1.1)", Greek alpha and ")", the Eastern Arabic digit one, the Chinese
\* numeral one and ".".
ExtraTexts ==
    {<<49, 46, 49, 41>>, <<40, 73, 41>>, <<97, 46>>,
     <<49, 46, 97, 46, 105>>, <<35, 35>>, <<42>>, <<42, 46>>, <<945, 41>>,
     <<40, 49, 46, 49, 41>>, <<1633>>, <<19968, 46>>}

PatternTexts == SeqsUpTo(PatternChars, MaxPatLen) \cup ExtraTexts

\* 6 * (2^32 - 1) + 1 = 25769803771, the least n whose Symbol amount is 2^32.
SymbolOver32 == <<0, 5, 65535, 65531>>

NumberValues == {u64(1), u64(4)}

\* Further lists of numbers.
ExtraLists ==
    {<<u64(0)>>, <<u64(12), u64(2)>>, <<u64(4)>>, <<u64(1), u64(2), u64(3)>>,
     <<u64(3), u64(4)>>, <<u64(1), u64(2), u64(3), u64(4)>>, <<u64_MAX>>, <<u64(1), u64_MAX>>,
     <<SymbolOver32>>, <<u64_sub(SymbolOver32, u64(1))>>}

NumberLists == SeqsUpTo(NumberValues, MaxNumbers) \cup ExtraLists

\* The numbers handed to apply_kth.
KthNumbers == NumberValues \cup {u64(0), u64(5), SymbolOver32}

\* The numbers the conversions are applied to one by one.
Samples ==
    {u64(i) : i \in 0..MaxN}
    \cup {u64(i) : i \in {99, 100, 415, 416, 702, 703, 1000, 2550, 2551,
                          3999, 4000, 9999, 10000, 12345, 65536, 1500000,
                          3999999, 4000000, 10000000,
                          99999999, 100000000, 100000001, 2147483647}}
    \cup {SymbolOver32, u64_sub(SymbolOver32, u64(1)), u64_MAX,
          u64_sub(u64_MAX, u64(1)), <<0, 1, 0, 0>>, <<1, 0, 0, 0>>,
          <<35527, 8964, 35303, 65535>>}

\* Chars handed to from_char: every counting symbol of the documentation of
\* `numbering`, their neighbours, and some chars of prefixes and suffixes.
Chars ==
    {49, 97, 65, 105, 73, 945, 913, 19968, 22777, 12354, 12356, 12450, 12452,
     1488, 44032, 12593, 42, 1633, 1777, 2407, 2535, 2453, 9312, 9461}
    \cup {48, 50, 98, 66, 106, 74, 946, 914, 1632, 1776, 2406, 2534, 9313,
          32, 35, 40, 41, 45, 46, 8224, 1489, 20108, 36019}

\* The kinds whose conversion is part of this repository.
AppliedKinds == NumberingKind \ ChineseKinds

\* The kinds whose result grows linearly with n.
LinearKinds == {"Symbol", "LowerRoman", "UpperRoman", "Hebrew"}

\* The longest run of a LinearKinds conversion that is built.
MaxRender == 4000

\* kind.apply(n) is computed: a string linear in n is built only for
\* n <= MaxRender (a call that panics builds none); a Roman numeral, which
\* grows by one name per 1000000, also for n <= 1000 * MaxRender.
Renderable(kind, n, bits) ==
    /\ kind \in AppliedKinds
    /\ kind \in LinearKinds =>
          \/ u64_ge(u64(MaxRender), n)
          \/ NumberingKind_panics(kind, n, bits)
          \/ /\ kind \in {"LowerRoman", "UpperRoman"}
             /\ u64_ge(u64(1000 * MaxRender), n)

NoCall == [op |-> "none"]

Init ==
    /\ target \in {32, 64}
    /\ parsed = [ok |-> FALSE, err |-> ""]
    /\ call = NoCall
    /\ ret = <<>>
    /\ panicked = FALSE

\* v.parse(): NumberingPattern::from_str on a string
FromStr(s) ==
    /\ call = NoCall
    /\ ~parsed.ok
    /\ parsed' = from_str(s)
    /\ call' = [op |-> "from_str", pattern |-> s]
    /\ ret' = <<>>
    /\ UNCHANGED <<target, panicked>>

\* Numbering::trimmed on the parsed pattern
Trimmed ==
    /\ call = NoCall
    /\ parsed.ok
    /\ parsed' = trimmed(parsed)
    /\ call' = [op |-> "trimmed"]
    /\ ret' = <<>>
    /\ UNCHANGED <<target, panicked>>

\* NumberingPattern::apply (Numbering::apply on a pattern, `numbering`)
Apply(numbers) ==
    /\ call = NoCall
    /\ parsed.ok
    /\ \A i \in 1..Len(numbers) :
          Renderable(applied_kind(parsed, i), numbers[i], target)
    /\ call' = [op |-> "apply", numbers |-> numbers]
    /\ panicked' = apply_panics(parsed, numbers, target)
    /\ ret' = IF panicked' THEN <<>> ELSE NumberingPattern_apply(parsed, numbers)
    /\ UNCHANGED <<target, parsed>>

\* NumberingPattern::apply_kth
ApplyKth(k, number) ==
    /\ call = NoCall
    /\ parsed.ok
    /\ Renderable(nth_piece(parsed, k).kind, number, target)
    /\ call' = [op |-> "apply_kth", k |-> k, number |-> number]
    /\ panicked' = apply_kth_panics(parsed, k, number, target)
    /\ ret' = IF panicked' THEN <<>> ELSE apply_kth(parsed, k, number)
    /\ UNCHANGED <<target, parsed>>

\* The cast of the parsed pattern to a string value
IntoValue ==
    /\ call = NoCall
    /\ parsed.ok
    /\ call' = [op |-> "into_value"]
    /\ ret' = into_value(parsed)
    /\ UNCHANGED <<target, parsed, panicked>>

\* The caller takes the result of the last call; a panic ends the run.
Return ==
    /\ call # NoCall
    /\ ~panicked
    /\ call' = NoCall
    /\ ret' = <<>>
    /\ UNCHANGED <<target, parsed, panicked>>

Next ==
    \/ \E s \in PatternTexts : FromStr(s)
    \/ Trimmed
    \/ \E numbers \in NumberLists : Apply(numbers)
    \/ \E k \in 0..MaxK, number \in KthNumbers :
          ApplyKth(k, number)
    \/ IntoValue
    \/ Return

Spec == Init /\ [][Next]_vars

\* NumberingKind::from_char
FromChar(c) ==
    /\ call = NoCall
    /\ call' = [op |-> "from_char", c |-> c]
    /\ ret' = from_char(c)
    /\ UNCHANGED <<target, parsed, panicked>>

\* NumberingKind::to_char
ToChar(kind) ==
    /\ call = NoCall
    /\ call' = [op |-> "to_char", kind |-> kind]
    /\ ret' = to_char(kind)
    /\ UNCHANGED <<target, parsed, panicked>>

\* NumberingKind::apply
KindApply(kind, n) ==
    /\ call = NoCall
    /\ Renderable(kind, n, target)
    /\ call' = [op |-> "kind_apply", kind |-> kind, n |-> n]
    /\ panicked' = NumberingKind_panics(kind, n, target)
    /\ ret' = IF panicked' THEN <<>> ELSE NumberingKind_apply(kind, n)
    /\ UNCHANGED <<target, parsed>>

NextKinds ==
    \/ \E c \in Chars : FromChar(c)
    \/ \E kind \in NumberingKind : ToChar(kind)
    \/ \E kind \in NumberingKind, n \in Samples : KindApply(kind, n)
    \/ Return

\* The registry and the conversions of single numbers.
SpecKinds == Init /\ [][NextKinds]_vars

NextConversions ==
    \/ \E kind \in NumberingKind, n \in Samples : KindApply(kind, n)
    \/ Return

\* The conversions of single numbers alone: every result is a string.
SpecConversions == Init /\ [][NextConversions]_vars

(* ------------------------------ properties ---------------------------- *)

\* The concatenation of a sequence of strings.
RECURSIVE Flatten(_)
Flatten(ss) == IF ss = <<>> THEN <<>> ELSE Head(ss) \o Flatten(Tail(ss))

Min(a, b) == IF a < b THEN a ELSE b

LastPiece(p) == p.pieces[Len(p.pieces)]

\* What the numbers paired with a piece contribute: each piece's prefix (but
\* not the first one's when skip_first) and its kind applied to its number.
PairedText(p, nums, skip_first) ==
    Flatten([i \in 1..Min(Len(p.pieces), Len(nums)) |->
                (IF i = 1 /\ skip_first THEN <<>> ELSE p.pieces[i].prefix)
                    \o NumberingKind_apply(p.pieces[i].kind, nums[i])])

\* The separator put before a repeated number.
Separator(p) ==
    IF LastPiece(p).prefix # <<>> THEN LastPiece(p).prefix ELSE p.suffix

\* What the numbers beyond the piece count contribute.
RepeatedText(p, nums) ==
    Flatten([j \in 1..(Len(nums) - Len(p.pieces)) |->
                Separator(p)
                    \o NumberingKind_apply(LastPiece(p).kind,
                                           nums[Len(p.pieces) + j])])

\* The pieces of the pattern "1.1)" and of the pattern "1.1".
PiecesOneDotOne ==
    <<[prefix |-> <<>>, kind |-> "Arabic"],
      [prefix |-> <<46>>, kind |-> "Arabic"]>>

Applied == call.op = "apply" /\ ~panicked

\* C1: apply with more numbers than pieces converts every number beyond the
\* piece count with the last piece's kind, each preceded by exactly one
\* separator (the last piece's prefix if it is non-empty, else the suffix),
\* and an untrimmed pattern's suffix follows once at the end; "1.1)" applied
\* to [1, 2, 3] yields "1.2.3)".
C1_RepeatLastPiece ==
    (Applied /\ Len(call.numbers) > Len(parsed.pieces)) =>
        /\ ret = PairedText(parsed, call.numbers, parsed.trimmed)
                    \o RepeatedText(parsed, call.numbers)
                    \o (IF parsed.trimmed THEN <<>> ELSE parsed.suffix)
        /\ (/\ parsed.pieces = PiecesOneDotOne
            /\ parsed.suffix = <<41>>
            /\ ~parsed.trimmed
            /\ call.numbers = <<u64(1), u64(2), u64(3)>>)
           => ret = <<49, 46, 50, 46, 51, 41>>

\* "1.1)" has been applied to [1, 2, 3] and "1.2.3)" returned.
C1_Witness ==
    /\ Applied
    /\ parsed.pieces = PiecesOneDotOne
    /\ parsed.suffix = <<41>>
    /\ ~parsed.trimmed
    /\ call.numbers = <<u64(1), u64(2), u64(3)>>
    /\ ret = <<49, 46, 50, 46, 51, 41>>

\* C2: apply of an untrimmed pattern to at most as many numbers as it has
\* pieces returns, for each number in order, its piece's prefix and its
\* piece's kind applied to it, and then the suffix; the pieces left over
\* contribute nothing and raise no error (the call fails only where the
\* conversion of one of the given numbers does), and no numbers yield the
\* suffix.
C2_FewerNumbers ==
    (/\ call.op = "apply"
     /\ ~parsed.trimmed
     /\ Len(call.numbers) <= Len(parsed.pieces)) =>
        /\ panicked <=>
              \E i \in 1..Len(call.numbers) :
                  NumberingKind_panics(parsed.pieces[i].kind, call.numbers[i],
                                       target)
        /\ ~panicked =>
              ret = PairedText(parsed, call.numbers, FALSE) \o parsed.suffix
        /\ call.numbers = <<>> => (~panicked /\ ret = parsed.suffix)

\* An untrimmed pattern with a suffix was applied to a number, leaving over
\* a piece that has a prefix.
C2_Witness ==
    /\ Applied
    /\ ~parsed.trimmed
    /\ Len(call.numbers) = 1
    /\ Len(parsed.pieces) > 1
    /\ LastPiece(parsed).prefix # <<>>
    /\ parsed.suffix # <<>>
    /\ ret = NumberingKind_apply(parsed.pieces[1].kind, call.numbers[1])
                \o parsed.suffix

\* C3: apply of a trimmed pattern leaves out the first piece's prefix, keeps
\* the prefix of every later piece and does not append the suffix at the
\* end, for every list of numbers (trimmed "1.1" applied to [3, 4] yields
\* "3.4"); apply of an untrimmed pattern returns the first prefix, what the
\* trimmed pattern returns, and the suffix once at the very end.
C3_Trimmed ==
    Applied =>
        /\ parsed.trimmed =>
              ret = PairedText(parsed, call.numbers, TRUE)
                        \o RepeatedText(parsed, call.numbers)
        /\ ~parsed.trimmed =>
              ret = (IF call.numbers # <<>>
                     THEN parsed.pieces[1].prefix ELSE <<>>)
                        \o NumberingPattern_apply(trimmed(parsed), call.numbers)
                        \o parsed.suffix
        /\ (/\ parsed.trimmed
            /\ parsed.pieces = PiecesOneDotOne
            /\ parsed.suffix = <<>>
            /\ call.numbers = <<u64(3), u64(4)>>)
           => ret = <<51, 46, 52>>

\* The trimmed pattern "(1.1)" was applied to [1, 4] and returned "1.4".
C3_Witness ==
    /\ Applied
    /\ parsed.trimmed
    /\ parsed.pieces = <<[prefix |-> <<40>>, kind |-> "Arabic"],
                         [prefix |-> <<46>>, kind |-> "Arabic"]>>
    /\ parsed.suffix = <<41>>
    /\ call.numbers = <<u64(1), u64(4)>>
    /\ ret = <<49, 46, 52>>

\* C4: apply_kth(k, number) returns the first piece's prefix, the number
\* converted with the kind of piece k (of the last piece for k beyond the
\* pieces) and the suffix, whatever the trimmed flag; the prefix of piece k
\* is not emitted ("1.1)" with k = 1 and number 5 yields "5)").
C4_ApplyKth ==
    (call.op = "apply_kth" /\ ~panicked) =>
        /\ ret = parsed.pieces[1].prefix
                    \o NumberingKind_apply(
                           parsed.pieces[Min(call.k + 1, Len(parsed.pieces))].kind,
                           call.number)
                    \o parsed.suffix
        /\ (/\ parsed.pieces = PiecesOneDotOne
            /\ parsed.suffix = <<41>>
            /\ call.k = 1
            /\ call.number = u64(5))
           => ret = <<53, 41>>

\* apply_kth of "1.1)", trimmed, with k = 1 and number 5 returned "5)".
C4_Witness ==
    /\ call.op = "apply_kth"
    /\ parsed.trimmed
    /\ parsed.pieces = PiecesOneDotOne
    /\ parsed.suffix = <<41>>
    /\ call.k = 1
    /\ call.number = u64(5)
    /\ ret = <<53, 41>>

\* The counting symbols the documentation of `numbering` lists.
CountingSymbols ==
    {49, 97, 65, 105, 73, 945, 913, 19968, 22777, 12354, 12356, 12450, 12452,
     1488, 44032, 12593, 42, 1633, 1777, 2407, 2535, 2453, 9312, 9461}

\* C5: parsing fails, with "invalid numbering pattern", exactly for the
\* strings without a counting symbol; every other string parses to an
\* untrimmed pattern with at least one piece, so every parsed pattern has at
\* least one piece.
C5_ParseFailsIffNoSymbol ==
    /\ call.op = "from_str" =>
          /\ parsed.ok <=>
                \E i \in 1..Len(call.pattern) : call.pattern[i] \in CountingSymbols
          /\ ~parsed.ok => parsed.err = "invalid numbering pattern"
          /\ parsed.ok => ~parsed.trimmed
    /\ parsed.ok => parsed.pieces # <<>>

\* A string of one counting symbol only, without prefix and suffix, parsed.
C5_Witness ==
    /\ call.op = "from_str"
    /\ Len(call.pattern) = 1
    /\ parsed.ok
    /\ Len(parsed.pieces) = 1
    /\ parsed.pieces[1].prefix = <<>>
    /\ parsed.suffix = <<>>

\* C6: the string a parsed pattern is cast to parses to the same pieces and
\* the same suffix.
C6_RoundTrip ==
    call.op = "into_value" =>
        /\ from_str(ret).ok
        /\ from_str(ret).pieces = parsed.pieces
        /\ from_str(ret).suffix = parsed.suffix

\* "1.a.i" was parsed and cast back to "1.a.i".
C6_Witness ==
    /\ call.op = "into_value"
    /\ Len(parsed.pieces) = 3
    /\ ret = <<49, 46, 97, 46, 105>>

TraditionalKinds == {"LowerTraditionalChinese", "UpperTraditionalChinese"}

\* C7: to_char inverts from_char on every char from_char accepts; from_char
\* inverts to_char on every kind but the two Traditional Chinese ones, which
\* from_char never returns and which to_char maps to the chars of the
\* Simplified kinds.
C7_RegistryInverse ==
    /\ (call.op = "from_char" /\ ret # None) =>
          /\ to_char(ret) = call.c
          /\ ret \notin TraditionalKinds
    /\ (call.op = "to_char" /\ call.kind \notin TraditionalKinds) =>
          from_char(ret) = call.kind
    /\ (call.op = "to_char" /\ call.kind = "LowerTraditionalChinese") =>
          ret = to_char("LowerSimplifiedChinese")
    /\ (call.op = "to_char" /\ call.kind = "UpperTraditionalChinese") =>
          ret = to_char("UpperSimplifiedChinese")

\* to_char of a Traditional Chinese kind returned a char that from_char
\* takes for the Simplified kind.
C7_Witness ==
    /\ call.op = "to_char"
    /\ call.kind = "UpperTraditionalChinese"
    /\ from_char(ret) = "UpperSimplifiedChinese"

\* The number a string of bijective base-K digits over alpha denotes.
RECURSIVE BijectiveValue(_, _, _)
BijectiveValue(alpha, s, acc) ==
    IF s = <<>> THEN acc
    ELSE BijectiveValue(alpha, Tail(s),
             acc * Len(alpha)
                 + (CHOOSE d \in 1..Len(alpha) : alpha[d] = Head(s)))

\* n < 2^31
Small(n) == n[1] = 0 /\ n[2] = 0 /\ n[3] < 32768

KindApplied == call.op = "kind_apply" /\ ~panicked

\* C8: a zeroless kind maps different numbers n >= 1 to different strings;
\* its result is the bijective base-K numeral of n over the kind's alphabet
\* (K = 26: 1 -> "a", 26 -> "z", 27 -> "aa").
C8_ZerolessInjective ==
    (KindApplied /\ call.kind \in ZerolessKinds /\ call.n # u64(0)) =>
        /\ \A m \in Samples \ {call.n, u64(0)} :
              NumberingKind_apply(call.kind, m) # ret
        /\ \A i \in 1..Len(ret) :
              \E d \in 1..Len(alphabet(call.kind)) : alphabet(call.kind)[d] = ret[i]
        /\ Small(call.n) =>
              BijectiveValue(alphabet(call.kind), ret, 0) = u64_int(call.n)
        /\ (call.kind = "LowerLatin" /\ call.n = u64(1)) => ret = <<97>>
        /\ (call.kind = "LowerLatin" /\ call.n = u64(26)) => ret = <<122>>
        /\ (call.kind = "LowerLatin" /\ call.n = u64(27)) => ret = <<97, 97>>

\* LowerLatin applied to 27 returned "aa".
C8_Witness ==
    /\ KindApplied
    /\ call.kind = "LowerLatin"
    /\ call.n = u64(27)
    /\ ret = <<97, 97>>

\* C9: every kind converts 0: the zeroless kinds, Symbol and Hebrew to "-",
\* the positional decimal kinds to their zero digit, the Roman kinds to "n"
\* and "N", the Greek kinds to the Greek zero sign.
C9_Zero ==
    (call.op = "kind_apply" /\ call.n = u64(0)) =>
        /\ ~panicked
        /\ call.kind \in ZerolessKinds \cup {"Symbol", "Hebrew"} => ret = <<45>>
        /\ call.kind = "EasternArabic" => ret = <<1632>>
        /\ call.kind = "EasternArabicPersian" => ret = <<1776>>
        /\ call.kind = "DevanagariNumber" => ret = <<2406>>
        /\ call.kind = "BengaliNumber" => ret = <<2534>>
        /\ call.kind = "LowerRoman" => ret = <<110>>
        /\ call.kind = "UpperRoman" => ret = <<78>>
        /\ call.kind \in {"LowerGreek", "UpperGreek"} => ret = <<65930>>

\* UpperRoman applied to 0 returned "N".
C9_Witness ==
    /\ KindApplied
    /\ call.kind = "UpperRoman"
    /\ call.n = u64(0)
    /\ ret = <<78>>

\* C10: apply and apply_kth always return a string: no assertion, unwrap or
\* table index fails, for any numbers up to 2^64 - 1.
C10_Total == call.op \in {"apply", "apply_kth"} => ~panicked

\* Where usize has 64 bits no call panics: the assertions of greek_numeral
\* and the unwraps of decimal and of the Symbol arm hold up to 2^64 - 1.
C10_Total64 == target = 64 => ~panicked

\* The text the documentation of `numbering` gives for the Symbol kind at
\* n >= 1 (n < 2^31): the mark of index (n - 1) mod 6 of * dagger
\* double-dagger section pilcrow double-bar, ceil(n / 6) times.
SymbolText(n) ==
    LET marks == <<42, 8224, 8225, 167, 182, 8214>>
    IN  [j \in 1..((n + 5) \div 6) |-> marks[((n - 1) % 6) + 1]]

SymbolApplied ==
    call.op = "kind_apply" /\ call.kind = "Symbol" /\ call.n # u64(0)

\* C11: the Symbol kind converts every n >= 1 to a string: the single mark
\* marks[(n - 1) mod 6] repeated ceil(n / 6) times (1..6 give one mark each,
\* 7 gives "**").
C11_SymbolMarks ==
    SymbolApplied =>
        /\ ~panicked
        /\ Small(call.n) => ret = SymbolText(u64_int(call.n))

\* Every Symbol conversion that returns has returned the documented text, and
\* the conversion panics only where ceil(n / 6) exceeds a 32-bit usize.
C11_SymbolReturned ==
    SymbolApplied =>
        /\ panicked <=> (target = 32 /\ u64_ge(call.n, SymbolOver32))
        /\ (~panicked /\ Small(call.n)) => ret = SymbolText(u64_int(call.n))
        /\ (~panicked /\ call.n = u64(7)) => ret = <<42, 42>>
        /\ (~panicked /\ call.n = u64(6)) => ret = <<8214>>

\* The base-10000 chunks of n, lowest first.
RECURSIVE Myriads(_)
Myriads(n) ==
    IF n = u64(0) THEN <<>>
    ELSE <<u64_rem(n, 10000)>> \o Myriads(u64_div(n, 10000))

\* The non-zero base-10000 chunks of n, lowest first.
NonZeroMyriads(n) == SelectSeq(Myriads(n), LAMBDA x : x # 0)

\* How many times the char c occurs in s.
Count(s, c) == Cardinality({i \in 1..Len(s) : s[i] = c})

\* The chunks of s are joined by ", ": s has k separators, none of them
\* first, last or next to another one.
JoinedBy(s, k) ==
    /\ Cardinality({i \in 1..(Len(s) - 1) : s[i] = 44 /\ s[i + 1] = 32}) = k
    /\ Count(s, 44) = k
    /\ Count(s, 32) = k
    /\ s[1] # 44
    /\ s[Len(s)] # 32
    /\ \A i \in 1..(Len(s) - 2) : ~(s[i] = 32 /\ s[i + 1] = 44)

GreekApplied ==
    KindApplied /\ call.kind \in {"LowerGreek", "UpperGreek"} /\ call.n # u64(0)

\* C12 as stated: the Greek numeral of n >= 1 ends with the keraia exactly
\* when the lowest base-10000 chunk of n has no thousands digit, and the
\* rendered non-zero chunks are joined by ", ".
C12_GreekKeraia ==
    GreekApplied =>
        /\ ret[Len(ret)] = 697 <=> Myriads(call.n)[1] \div 1000 = 0
        /\ JoinedBy(ret, Len(NonZeroMyriads(call.n)) - 1)

\* C12 as amended: the keraia follows every non-zero base-10000 chunk that has
\* no thousands digit, so the Greek numeral of n >= 1 ends with the keraia
\* exactly when the lowest non-zero chunk of n has no thousands digit; the
\* rendered non-zero chunks are joined by ", ", zero chunks render nothing.
C12_GreekKeraiaNonZero ==
    GreekApplied =>
        /\ ret[Len(ret)] = 697 <=> NonZeroMyriads(call.n)[1] \div 1000 = 0
        /\ Count(ret, 697) =
              Len(SelectSeq(NonZeroMyriads(call.n), LAMBDA x : x \div 1000 = 0))
        /\ JoinedBy(ret, Len(NonZeroMyriads(call.n)) - 1)

\* LowerGreek applied to 100000001 (chunks 1, 0, 1) returned two rendered
\* chunks, each followed by the keraia, joined by one ", ".
C12_Witness ==
    /\ GreekApplied
    /\ call.kind = "LowerGreek"
    /\ call.n = u64(100000001)
    /\ ret = <<946, 924, 945, 697, 44, 32, 945, 697>>

\* The value of each Hebrew letter, alef (1) to tav (400), by its char.
HebrewValue ==
    [c \in {1488, 1489, 1490, 1491, 1492, 1493, 1494, 1495, 1496, 1497, 1499,
            1500, 1502, 1504, 1505, 1506, 1508, 1510, 1511, 1512, 1513, 1514}
       |-> CASE c = 1488 -> 1 [] c = 1489 -> 2 [] c = 1490 -> 3
             [] c = 1491 -> 4 [] c = 1492 -> 5 [] c = 1493 -> 6
             [] c = 1494 -> 7 [] c = 1495 -> 8 [] c = 1496 -> 9
             [] c = 1497 -> 10 [] c = 1499 -> 20 [] c = 1500 -> 30
             [] c = 1502 -> 40 [] c = 1504 -> 50 [] c = 1505 -> 60
             [] c = 1506 -> 70 [] c = 1508 -> 80 [] c = 1510 -> 90
             [] c = 1511 -> 100 [] c = 1512 -> 200 [] c = 1513 -> 300
             [] c = 1514 -> 400]

\* The letters of the Hebrew numeral of n: the letter of the largest value
\* <= n, then the letters of the rest; tet vav for a rest of 15 and tet zayin
\* for a rest of 16.
RECURSIVE HebrewLetters(_)
HebrewLetters(n) ==
    CASE n = 0 -> <<>>
      [] n = 15 -> <<1496, 1493>>
      [] n = 16 -> <<1496, 1494>>
      [] OTHER ->
          LET c == CHOOSE c \in DOMAIN HebrewValue :
                      /\ HebrewValue[c] <= n
                      /\ \A d \in DOMAIN HebrewValue :
                            HebrewValue[d] <= n => HebrewValue[d] <= HebrewValue[c]
          IN  <<c>> \o HebrewLetters(n - HebrewValue[c])

\* The punctuation of a Hebrew numeral: a geresh after a single letter, a
\* gershayim before the last of several letters.
HebrewPunctuated(letters) ==
    IF Len(letters) = 1 THEN letters \o <<1523>>
    ELSE SubSeq(letters, 1, Len(letters) - 1) \o <<1524>>
             \o <<letters[Len(letters)]>>

HebrewApplied == KindApplied /\ call.kind = "Hebrew" /\ call.n # u64(0)

\* C13: the Hebrew numeral of n >= 1 has the letters of the greedy
\* subtraction of the values 400..1, with tet vav and tet zayin for a rest
\* of 15 and 16; a single letter is followed by a geresh; several letters
\* hold exactly one gershayim, right before the last letter, and no geresh.
C13_Hebrew ==
    HebrewApplied =>
        /\ Small(call.n) =>
              ret = HebrewPunctuated(HebrewLetters(u64_int(call.n)))
        /\ Count(ret, 1523) + Count(ret, 1524) = 1
        /\ Count(ret, 1523) = 1 <=> Len(ret) = 2
        /\ Count(ret, 1523) = 1 => ret[2] = 1523
        /\ Count(ret, 1524) = 1 => (Len(ret) >= 3 /\ ret[Len(ret) - 1] = 1524)
        /\ \A i \in 1..Len(ret) :
              ret[i] \in DOMAIN HebrewValue \cup {1523, 1524}

\* Hebrew applied to 415 returned tav, tet, gershayim, vav.
C13_Witness ==
    /\ HebrewApplied
    /\ call.n = u64(415)
    /\ ret = <<1514, 1496, 1524, 1493>>

\* A Latin small letter as its capital, every other char as itself.
Capital(c) == IF c >= 97 /\ c <= 122 THEN c - 32 ELSE c

\* A Latin capital as its small letter, every other char as itself.
CaseFolded(c) == IF c >= 65 /\ c <= 90 THEN c + 32 ELSE c

\* The value of a Roman letter: I V X L C D M.
RomanLetterValue(c) ==
    CASE c = 73 -> 1 [] c = 86 -> 5 [] c = 88 -> 10 [] c = 76 -> 50
      [] c = 67 -> 100 [] c = 68 -> 500 [] c = 77 -> 1000 [] OTHER -> 0

\* The values of the letters of a Roman numeral in capitals; a letter under
\* an overline (U+0305) counts a thousandfold.
RECURSIVE RomanLetters(_)
RomanLetters(s) ==
    IF s = <<>> THEN <<>>
    ELSE IF Len(s) >= 2 /\ s[2] = 773
         THEN <<1000 * RomanLetterValue(s[1])>>
                  \o RomanLetters(SubSeq(s, 3, Len(s)))
         ELSE <<RomanLetterValue(s[1])>> \o RomanLetters(Tail(s))

\* The values of the names a Roman numeral is made of, given the values of
\* its letters: a letter before a larger one forms one name with it (IV, CM).
RECURSIVE RomanNameValues(_)
RomanNameValues(vs) ==
    IF vs = <<>> THEN <<>>
    ELSE IF Len(vs) >= 2 /\ vs[1] < vs[2]
         THEN <<vs[2] - vs[1]>> \o RomanNameValues(SubSeq(vs, 3, Len(vs)))
         ELSE <<vs[1]>> \o RomanNameValues(Tail(vs))

\* The values that have a name in a Roman numeral.
RomanValues ==
    {1, 4, 5, 9, 10, 40, 50, 90, 100, 400, 500, 900, 1000, 4000, 5000, 10000,
     50000, 100000, 500000, 1000000}

RECURSIVE SumSeq(_)
SumSeq(vs) == IF vs = <<>> THEN 0 ELSE Head(vs) + SumSeq(Tail(vs))

RomanApplied ==
    KindApplied /\ call.kind \in {"LowerRoman", "UpperRoman"} /\ call.n # u64(0)

\* C14: the Roman numeral of n >= 1 is made of names whose values sum to n
\* and never increase, each the largest value <= what remained of n
\* (4 -> "IV", 3999 -> "MMMCMXCIX"); the lowercase numeral is the uppercase
\* one with every letter case-folded.
C14_Roman ==
    (RomanApplied /\ Small(call.n)) =>
        LET n == u64_int(call.n)
            upper == [i \in 1..Len(ret) |-> Capital(ret[i])]
            vals == RomanNameValues(RomanLetters(upper))
            rest(i) == n - SumSeq(SubSeq(vals, 1, i - 1))
        IN  /\ SumSeq(vals) = n
            /\ \A i \in 1..Len(vals) :
                  /\ vals[i] \in RomanValues
                  /\ vals[i] <= rest(i)
                  /\ \A v \in RomanValues : v <= rest(i) => v <= vals[i]
            /\ \A i \in 1..(Len(vals) - 1) : vals[i] >= vals[i + 1]
            /\ call.kind = "UpperRoman" => ret = upper
            /\ call.kind = "LowerRoman" =>
                  ret = [i \in 1..Len(upper) |->
                            CaseFolded(NumberingKind_apply("UpperRoman", call.n)[i])]
            /\ (call.kind = "UpperRoman" /\ n = 4) => ret = <<73, 86>>
            /\ (call.kind = "UpperRoman" /\ n = 3999) =>
                  ret = <<77, 77, 77, 67, 77, 88, 67, 73, 88>>

\* LowerRoman applied to 3999 returned "mmmcmxcix".
C14_Witness ==
    /\ RomanApplied
    /\ call.kind = "LowerRoman"
    /\ call.n = u64(3999)
    /\ ret = <<109, 109, 109, 99, 109, 120, 99, 105, 120>>

\* C15: parsing loses no text: the prefixes of the pieces, each followed by
\* the char of its kind, and then the suffix, spell the parsed string; there
\* are as many pieces as counting symbols in the string, and no prefix and
\* no suffix holds a counting symbol.
C15_ParsingLosesNoText ==
    (call.op = "from_str" /\ parsed.ok) =>
        /\ Flatten([i \in 1..Len(parsed.pieces) |->
                       Append(parsed.pieces[i].prefix,
                              to_char(parsed.pieces[i].kind))])
               \o parsed.suffix = call.pattern
        /\ Len(parsed.pieces) =
              Cardinality({i \in 1..Len(call.pattern) :
                              call.pattern[i] \in CountingSymbols})
        /\ \A i \in 1..Len(parsed.pieces) :
              \A j \in 1..Len(parsed.pieces[i].prefix) :
                  parsed.pieces[i].prefix[j] \notin CountingSymbols
        /\ \A j \in 1..Len(parsed.suffix) :
              parsed.suffix[j] \notin CountingSymbols

\* "(1.1)" was parsed to the pieces ("(", Arabic) and (".", Arabic) and the
\* suffix ")".
C15_Witness ==
    /\ call.op = "from_str"
    /\ call.pattern = <<40, 49, 46, 49, 41>>
    /\ parsed.ok
    /\ parsed.pieces = <<[prefix |-> <<40>>, kind |-> "Arabic"],
                         [prefix |-> <<46>>, kind |-> "Arabic"]>>
    /\ parsed.suffix = <<41>>

=============================================================================
